---- MODULE Spec2Model ----
(***************************************************************************)
(* Command dispatch of the ai00 server: the HTTP handlers of               *)
(* crates/ai00-server/src/api/model.rs and src/api/oai/embedding.rs, the   *)
(* start-up of src/salvo_main.rs, the Command Channel between them and the *)
(* single Model Worker that consumes it.                                   *)
(*                                                                         *)
(* The worker (model_route), the info service (request_info,               *)
(* try_request_info, request_info_stream) and the path sandbox             *)
(* (build_path) are not part of the sources at hand; they are modelled     *)
(* from sections 4.1, 4.3 and 4.5 of the specification.                    *)
(***************************************************************************)
EXTENDS Integers, Sequences, FiniteSets, TLC

\* ------------------------------------------------------------------ bounds
\* Number of HTTP requests served in one run; each is served by its own task.
NumHandlers == 2
\* Cap on the snapshots queued on one info stream (the channel is unbounded).
MaxBacklog == 2

Handlers == 1..NumHandlers

\* --------------------------------------------------------- program constants
OK == 200
NOT_FOUND == 404
INTERNAL_SERVER_ERROR == 500
\* resp[h] before the handler has answered
NoResponse == 0

VARIABLES
    main_pc,      \* position of salvo_main
    queue,        \* the Command Channel (sender, receiver) of salvo_main
    worker_pc,    \* "none" | "idle" | "busy" | "exited"
    cur,          \* the command the worker is processing
    env,          \* the worker's model: [loaded, reload]
    pc,           \* pc[h]: position of the handler serving request h
    kind,         \* kind[h]: the endpoint request h was routed to
    req,          \* req[h]: the request body as received and as the handler rewrote it
    resp,         \* resp[h]: status code of the response, NoResponse before
    result,       \* result[h]: the reply channel the handler (or its task) waits on
    hinfo,        \* hinfo[h]: the RuntimeInfo returned by request_info
    token_chan,   \* token_chan[h]: the session's output channel of embeddings
    session,      \* session[h]: events the session of h has yet to produce
    emb,          \* emb[h]: locals and response body of embeddings
    info_chan,    \* info_chan[h]: (info_sender, info_receiver) of state
    task_pc,      \* task_pc[h]: position of the polling task spawned by state
    nsent,        \* ghost: commands with a reply channel that h has sent
    polls,        \* ghost: polls[h] = [last, ok_seen, in_row] of unload
    arrived,      \* ghost: requests of the Reload commands, in arrival order
    taken,        \* ghost: number of Reload commands the worker has taken
    last_ok,      \* ghost: arrival index of the last successful Reload
    unloaded,     \* ghost: an unload has answered and no Reload was sent since
    gen_model,    \* ghost: gen_model[h] = env when the worker took h's Generate
    conv,         \* the conversion of one EmbeddingRequest, checked on its own
    net           \* the listener settings of salvo_main, checked on their own

vars == << main_pc, queue, worker_pc, cur, env, pc, kind, req, resp, result,
           hinfo, token_chan, session, emb, info_chan, task_pc, nsent, polls,
           arrived, taken, last_ok, unloaded, gen_model, conv, net >>

\* ------------------------------------------------------------- path sandbox
Root == << "root" >>

IsPrefix(s, t) == Len(s) <= Len(t) /\ SubSeq(t, 1, Len(s)) = s

\* Lexical resolution of a component list: ".." removes the last component.
RECURSIVE Clean(_, _)
Clean(acc, p) ==
    IF p = << >> THEN acc
    ELSE IF Head(p) = ".."
         THEN Clean(IF acc = << >> THEN << >> ELSE SubSeq(acc, 1, Len(acc) - 1), Tail(p))
         ELSE Clean(Append(acc, Head(p)), Tail(p))

\* build_path(root, path): the resolved path, or an error when it leaves root.
build_path(root, path) ==
    LET full == Clean(<< >>, root \o path)
    IN  IF IsPrefix(root, full)
        THEN [ok |-> TRUE, path |-> full]
        ELSE [ok |-> FALSE, path |-> << >>]

\* ------------------------------------------------------------ request bodies
GoodA == << "a" >>
GoodB == << "x", "..", "b" >>
Escaping == << "..", "a" >>
EscapingLate == << "l", "..", ".." >>

Body(model_path, lora, state) == [model_path |-> model_path, lora |-> lora, state |-> state]

\* the ReloadRequest bodies served: two that pass the sandbox, with different
\* models, and one for each path field the sandbox can reject
ReloadRequests ==
    { Body(GoodA, << << "l" >> >>, << << "s" >> >>),
      Body(GoodB, << << "l" >> >>, << << "s" >> >>),
      Body(Escaping, << << "l" >> >>, << << "s" >> >>),
      Body(GoodA, << << "l" >>, EscapingLate >>, << << "s" >> >>),
      Body(GoodA, << << "l" >> >>, << << "s" >>, Escaping >>) }
\* the paths served in the bodies of load_state and save
SinglePaths == { << "s" >>, EscapingLate }

NoReload == [model_path |-> << >>, lora |-> << >>, state |-> << >>]
\* the ReloadRequest salvo_main builds from the config file
ConfigRequest == [model_path |-> << "cfg" >>, lora |-> << >>, state |-> << >>]

\* the RuntimeInfo request_info falls back to when no fresh snapshot arrives
Stale == [reload |-> NoReload, tokenizer |-> << >>]
\* the RuntimeInfo the worker publishes for its current model
Snapshot(e) == [reload |-> e.reload, tokenizer |-> e.reload.model_path]

\* GenerateRequest::default()
DefaultGenerateRequest ==
    [prompt |-> << >>, max_tokens |-> 0, embed |-> FALSE, embed_layer |-> 0,
     stop |-> << >>, sampler |-> "default"]

\* [String]::join(sep)
RECURSIVE JoinRest(_, _)
JoinRest(list, sep) ==
    IF list = << >> THEN << >> ELSE sep \o Head(list) \o JoinRest(Tail(list), sep)

Join(list, sep) ==
    IF list = << >> THEN << >> ELSE Head(list) \o JoinRest(Tail(list), sep)

\* a plausible slip: the texts are joined with a blank between them
FromSpaced(value) ==
    [DefaultGenerateRequest EXCEPT !.prompt = Join(value.input, << " " >>),
                                   !.max_tokens = 1,
                                   !.embed = TRUE,
                                   !.embed_layer = value.embed_layer]

\* impl From<EmbeddingRequest> for GenerateRequest
From(value) ==
    [DefaultGenerateRequest EXCEPT !.prompt = Join(value.input, << >>),
                                   !.max_tokens = 1,
                                   !.embed = TRUE,
                                   !.embed_layer = value.embed_layer]

\* the EmbeddingRequest bodies the served requests carry
ServedEmbeddingRequests == { [input |-> << << "a" >>, << "b" >> >>, embed_layer |-> 1] }
NoEmbeddingRequest == [input |-> << >>, embed_layer |-> 0]

\* ------------------------------------------------------------------ commands
NoCmd == [type |-> "None", h |-> 0, reload |-> NoReload, path |-> << >>,
          gen |-> DefaultGenerateRequest, tokenizer |-> << >>]

\* ThreadRequest::Reload { request, sender }; h = 0 is sender: None
ReloadCmd(request, h) == [NoCmd EXCEPT !.type = "Reload", !.h = h, !.reload = request]
\* ThreadRequest::Unload
UnloadCmd == [NoCmd EXCEPT !.type = "Unload"]
\* ThreadRequest::StateLoad { request, sender: Some(result_sender) }
StateLoadCmd(path, h) == [NoCmd EXCEPT !.type = "StateLoad", !.h = h, !.path = path]
\* ThreadRequest::Save { request, sender: result_sender }
SaveCmd(path, h) == [NoCmd EXCEPT !.type = "Save", !.h = h, !.path = path]
\* the QueryInfo command of request_info, try_request_info and request_info_stream
QueryInfoCmd(h) == [NoCmd EXCEPT !.type = "QueryInfo", !.h = h]
\* ThreadRequest::Generate { request, tokenizer, sender: token_sender }
GenerateCmd(request, tokenizer, h) ==
    [NoCmd EXCEPT !.type = "Generate", !.h = h, !.gen = request, !.tokenizer = tokenizer]

\* a plausible slip: the newest command overtakes the waiting ones
SendFront(q, cmd) == << cmd >> \o q

\* sender.send(cmd) on the unbounded Command Channel while its receiver lives
Send(q, cmd) == Append(q, cmd)

\* ------------------------------------------------------------ reply channels
NoChan == [st |-> "none", ok |-> FALSE, info |-> Stale]
OpenChan == [NoChan EXCEPT !.st = "open"]
ClosedChan == [NoChan EXCEPT !.st = "closed"]
GoneChan == [NoChan EXCEPT !.st = "gone"]
BoolMsg(b) == [NoChan EXCEPT !.st = "msg", !.ok = b]
InfoMsg(i) == [NoChan EXCEPT !.st = "msg", !.ok = TRUE, !.info = i]

\* the worker's end sends msg on the reply channel of h (dropped when the
\* receiving end is gone, or when the command carried no sender)
Reply(res, h, msg) ==
    IF h # 0 /\ res[h].st = "open" THEN [res EXCEPT ![h] = msg] ELSE res

\* the sending end of the reply channel of h is dropped without a reply
DropSender(res, h) == Reply(res, h, ClosedChan)

\* -------------------------------------------------------------- token events
NoTokens == [msgs |-> << >>, tx |-> FALSE, rx |-> FALSE]
Embed(vec) == [type |-> "Embed", vec |-> vec, counter |-> 0]
Stop(counter) == [type |-> "Stop", vec |-> << >>, counter |-> counter]
Content == [type |-> "Content", vec |-> << >>, counter |-> 0]
Error == [type |-> "Error", vec |-> << >>, counter |-> 0]

\* what a session may produce for an embed request against model m
Scripts(m) ==
    { << Embed(m) >>,
      << Content, Stop(1), Stop(2), Embed(m), Stop(3) >>,
      << Content, Error >> }

NoReq == [body_reload |-> NoReload, body_path |-> << >>, emb |-> NoEmbeddingRequest,
          reload |-> NoReload, path |-> << >>]
NoGen == [seen |-> FALSE, model |-> << >>, script |-> << >>]
\* EmbeddingResponse { object, model, data: vec![EmbeddingData { .. }], counter }
EmbeddingResponse(model_name, embedding, token_counter) ==
    [object |-> "list",
     model |-> model_name,
     data |-> << [object |-> "embedding", index |-> 0, embedding |-> embedding] >>,
     counter |-> token_counter]
NoBody == [object |-> "none", model |-> << >>, data |-> << >>, counter |-> 0]
\* the locals of embeddings (model_name, embedding, token_counter), the events
\* it has read (ghost) and the body of its response
NoEmb == [model |-> << >>, embedding |-> << >>, counter |-> 0, read |-> << >>,
          body |-> NoBody]
NoConv == [value |-> NoEmbeddingRequest, request |-> DefaultGenerateRequest, done |-> FALSE]
NoPolls == [last |-> "none", ok_seen |-> FALSE, clean |-> FALSE, in_row |-> FALSE]
Unloaded == [loaded |-> FALSE, reload |-> NoReload]

\* Option<T>: None and Some(v)
None == << >>
Some(v) == << v >>
\* Option::unwrap_or(default)
unwrap_or(opt, default) == IF opt = None THEN default ELSE opt[1]

NoNet == [port |-> 0, listen |-> None, bind_port |-> 0, bind_domain |-> "",
          use_acme |-> FALSE, use_tls |-> FALSE, serve |-> "none", done |-> FALSE]

\* ------------------------------------------------------------------- Init
Constructed ==
    /\ main_pc = "start"
    /\ queue = << >>
    /\ worker_pc = "none"
    /\ cur = NoCmd
    /\ env = Unloaded
    /\ pc = [h \in Handlers |-> "idle"]
    /\ kind = [h \in Handlers |-> "none"]
    /\ req = [h \in Handlers |-> NoReq]
    /\ resp = [h \in Handlers |-> NoResponse]
    /\ result = [h \in Handlers |-> NoChan]
    /\ hinfo = [h \in Handlers |-> Stale]
    /\ token_chan = [h \in Handlers |-> NoTokens]
    /\ session = [h \in Handlers |-> << >>]
    /\ emb = [h \in Handlers |-> NoEmb]
    /\ info_chan = [h \in Handlers |-> NoTokens]
    /\ task_pc = [h \in Handlers |-> "none"]
    /\ nsent = [h \in Handlers |-> 0]
    /\ polls = [h \in Handlers |-> NoPolls]
    /\ arrived = << >>
    /\ taken = 0
    /\ last_ok = 0
    /\ unloaded = FALSE
    /\ gen_model = [h \in Handlers |-> NoGen]

Init == Constructed /\ conv = NoConv /\ net = NoNet

\* ------------------------------------------------------------ channel helpers
\* the worker's receiver of the Command Channel exists
ReceiverAlive == worker_pc # "exited"

\* let _ = sender.send(cmd): the command is queued, or dropped with the
\* senders it carries when the receiver is gone
Enqueue(cmd) == queue' = IF ReceiverAlive THEN Send(queue, cmd) ELSE queue

\* the reply channel created for a command, as the sender of the command
\* sees it after the send
NewChan == IF ReceiverAlive THEN OpenChan ELSE ClosedChan

Pending(type, h) ==
    \/ cur.type = type /\ cur.h = h
    \/ \E i \in 1..Len(queue) : queue[i].type = type /\ queue[i].h = h

\* ---------------------------------------------------------------- salvo_main
\* tokio::task::spawn_blocking(move || model_route(receiver))
MainSpawn ==
    /\ main_pc = "start"
    /\ main_pc' = "spawned"
    /\ worker_pc' = "idle"
    /\ UNCHANGED << conv, net, queue, cur, env, pc, kind, req, resp, result, hinfo, token_chan,
                    session, emb, info_chan, task_pc, nsent, polls, arrived, taken,
                    last_ok, unloaded, gen_model >>

\* let _ = sender.send(ThreadRequest::Reload { request, sender: None })
MainReload ==
    /\ main_pc = "spawned"
    /\ main_pc' = "enqueued"
    /\ Enqueue(ReloadCmd(ConfigRequest, 0))
    /\ arrived' = IF ReceiverAlive THEN Append(arrived, ConfigRequest) ELSE arrived
    /\ UNCHANGED << conv, net, worker_pc, cur, env, pc, kind, req, resp, result, hinfo, token_chan,
                    session, emb, info_chan, task_pc, nsent, polls, taken, last_ok,
                    unloaded, gen_model >>

\* a plausible slip: the server is started before the Reload is sent
MainServeBeforeReload ==
    /\ main_pc = "spawned"
    /\ main_pc' = "serving"
    /\ UNCHANGED << conv, net, queue, worker_pc, cur, env, pc, kind, req, resp, result, hinfo,
                    token_chan, session, emb, info_chan, task_pc, nsent, polls, arrived,
                    taken, last_ok, unloaded, gen_model >>

\* Server::new(acceptor).serve(app): requests are accepted from here on
MainServe ==
    /\ main_pc = "enqueued"
    /\ main_pc' = "serving"
    /\ UNCHANGED << conv, net, queue, worker_pc, cur, env, pc, kind, req, resp, result, hinfo,
                    token_chan, session, emb, info_chan, task_pc, nsent, polls, arrived,
                    taken, last_ok, unloaded, gen_model >>

\* -------------------------------------------------------------- Model Worker
\* the worker pulls the next command in FIFO order
WorkerTake ==
    /\ worker_pc = "idle"
    /\ queue # << >>
    /\ cur' = Head(queue)
    /\ queue' = Tail(queue)
    /\ worker_pc' = "busy"
    /\ taken' = IF Head(queue).type = "Reload" THEN taken + 1 ELSE taken
    /\ UNCHANGED << conv, net, main_pc, env, pc, kind, req, resp, result, hinfo, token_chan,
                    session, emb, info_chan, task_pc, nsent, polls, arrived, last_ok,
                    unloaded, gen_model >>

WorkerDone ==
    /\ worker_pc' = "idle"
    /\ cur' = NoCmd
    /\ UNCHANGED << conv, net, main_pc, queue, pc, kind, req, resp, hinfo, emb, info_chan,
                    task_pc, nsent, polls, arrived, taken, unloaded >>

\* Reload: the model is replaced on success and left untouched on failure
DoReload ==
    /\ worker_pc = "busy" /\ cur.type = "Reload"
    /\ \E ok \in BOOLEAN :
        /\ env' = IF ok THEN [loaded |-> TRUE, reload |-> cur.reload] ELSE env
        /\ last_ok' = IF ok THEN taken ELSE last_ok
        /\ result' = Reply(result, cur.h, BoolMsg(ok))
    /\ WorkerDone
    /\ UNCHANGED << token_chan, session, gen_model >>

\* Unload: the model is released
DoUnload ==
    /\ worker_pc = "busy" /\ cur.type = "Unload"
    /\ env' = Unloaded
    /\ WorkerDone
    /\ UNCHANGED << result, last_ok, token_chan, session, gen_model >>

\* StateLoad and Save: success or failure is replied; both fail without a model
DoStateLoad ==
    /\ worker_pc = "busy" /\ cur.type = "StateLoad"
    /\ \E ok \in (IF env.loaded THEN BOOLEAN ELSE {FALSE}) :
        result' = Reply(result, cur.h, BoolMsg(ok))
    /\ WorkerDone
    /\ UNCHANGED << env, last_ok, token_chan, session, gen_model >>

DoSave ==
    /\ worker_pc = "busy" /\ cur.type = "Save"
    /\ \E ok \in (IF env.loaded THEN BOOLEAN ELSE {FALSE}) :
        result' = Reply(result, cur.h, BoolMsg(ok))
    /\ WorkerDone
    /\ UNCHANGED << env, last_ok, token_chan, session, gen_model >>

\* QueryInfo: a fresh snapshot while a model is loaded, no reply otherwise
DoQueryInfo ==
    /\ worker_pc = "busy" /\ cur.type = "QueryInfo"
    /\ result' = IF env.loaded
                 THEN Reply(result, cur.h, InfoMsg(Snapshot(env)))
                 ELSE DropSender(result, cur.h)
    /\ WorkerDone
    /\ UNCHANGED << env, last_ok, token_chan, session, gen_model >>

\* Generate: the session is registered against the model loaded right now
DoGenerate ==
    /\ worker_pc = "busy" /\ cur.type = "Generate"
    /\ \E script \in (IF env.loaded THEN Scripts(env.reload.model_path) ELSE { << Error >> }) :
        session' = [session EXCEPT ![cur.h] = script]
    /\ gen_model' = [gen_model EXCEPT ![cur.h] =
            [seen |-> TRUE, model |-> env.reload.model_path, script |-> session'[cur.h]]]
    /\ WorkerDone
    /\ UNCHANGED << env, last_ok, result, token_chan >>

\* catastrophic failure: the worker ends, its receiver and every command it
\* holds or has queued are dropped with their senders
WorkerTerminate ==
    /\ worker_pc \in {"idle", "busy"}
    /\ worker_pc' = "exited"
    /\ cur' = NoCmd
    /\ queue' = << >>
    /\ result' = [h \in Handlers |-> IF result[h].st = "open" THEN ClosedChan ELSE result[h]]
    /\ token_chan' = [h \in Handlers |->
                        IF Pending("Generate", h)
                        THEN [token_chan[h] EXCEPT !.tx = FALSE]
                        ELSE token_chan[h]]
    /\ UNCHANGED << conv, net, main_pc, env, pc, kind, req, resp, hinfo, session, emb, info_chan,
                    task_pc, nsent, polls, arrived, taken, last_ok, unloaded, gen_model >>

\* a session pushes its next event; the channel closes after the last one,
\* and the session ends at once when the receiver is gone
SessionEmit(h) ==
    /\ session[h] # << >>
    /\ IF token_chan[h].rx
       THEN /\ session' = [session EXCEPT ![h] = Tail(session[h])]
            /\ token_chan' = [token_chan EXCEPT
                    ![h].msgs = Append(token_chan[h].msgs, Head(session[h])),
                    ![h].tx = Tail(session[h]) # << >>]
       ELSE /\ session' = [session EXCEPT ![h] = << >>]
            /\ token_chan' = [token_chan EXCEPT ![h].tx = FALSE]
    /\ UNCHANGED << conv, net, main_pc, queue, worker_pc, cur, env, pc, kind, req, resp, result,
                    hinfo, emb, info_chan, task_pc, nsent, polls, arrived, taken,
                    last_ok, unloaded, gen_model >>

\* ------------------------------------------------------------------ handlers
\* request h reaches its handler once the server accepts requests; requests
\* are numbered in the order they arrive
Arrives(h) ==
    /\ main_pc = "serving"
    /\ pc[h] = "idle"
    /\ IF h = 1 THEN TRUE ELSE pc[h - 1] # "idle"

\* a plausible slip: the initial-state paths go to the worker unchecked
LoadBuildStatesUnchecked(root, body) ==
    LET model == build_path(root, body.model_path)
        lora == [i \in 1..Len(body.lora) |-> build_path(root, body.lora[i])]
    IN  [ok |-> model.ok /\ \A i \in 1..Len(body.lora) : lora[i].ok,
         request |-> [model_path |-> model.path,
                      lora |-> [i \in 1..Len(body.lora) |-> lora[i].path],
                      state |-> body.state]]

\* a plausible slip: the paths are checked, and the body is sent as received
LoadBuildKeepsCallerPaths(root, body) ==
    LET model == build_path(root, body.model_path)
        lora == [i \in 1..Len(body.lora) |-> build_path(root, body.lora[i])]
        state == [i \in 1..Len(body.state) |-> build_path(root, body.state[i])]
    IN  [ok |-> /\ model.ok
                /\ \A i \in 1..Len(body.lora) : lora[i].ok
                /\ \A i \in 1..Len(body.state) : state[i].ok,
         request |-> body]

\* load: every path of the body through build_path; the first rejection
\* returns, otherwise the body holds the paths build_path returned
LoadBuild(root, body) ==
    LET model == build_path(root, body.model_path)
        lora == [i \in 1..Len(body.lora) |-> build_path(root, body.lora[i])]
        state == [i \in 1..Len(body.state) |-> build_path(root, body.state[i])]
    IN  [ok |-> /\ model.ok
                /\ \A i \in 1..Len(body.lora) : lora[i].ok
                /\ \A i \in 1..Len(body.state) : state[i].ok,
         request |-> [model_path |-> model.path,
                      lora |-> [i \in 1..Len(body.lora) |-> lora[i].path],
                      state |-> [i \in 1..Len(body.state) |-> state[i].path]]]

\* a plausible slip: the two arms of the match are exchanged
StatusOfSwapped(reply) == IF reply THEN INTERNAL_SERVER_ERROR ELSE OK

\* match reply { true => StatusCode::OK, false => StatusCode::INTERNAL_SERVER_ERROR }
StatusOf(reply) == IF reply THEN OK ELSE INTERNAL_SERVER_ERROR

\* return StatusCode::NOT_FOUND before anything is sent
Reject(h, k) ==
    /\ pc' = [pc EXCEPT ![h] = "done"]
    /\ kind' = [kind EXCEPT ![h] = k]
    /\ resp' = [resp EXCEPT ![h] = NOT_FOUND]
    /\ UNCHANGED << conv, net, main_pc, queue, worker_pc, cur, env, result, hinfo, token_chan,
                    session, emb, info_chan, task_pc, nsent, polls, arrived, taken,
                    last_ok, unloaded, gen_model >>

\* a plausible slip: the handler carries the operation out itself, beside the
\* worker, and hands itself the outcome
SubmitInline(h, k, cmd, at) ==
    /\ queue' = queue
    /\ \E ok \in BOOLEAN : result' = [result EXCEPT ![h] = BoolMsg(ok)]
    /\ nsent' = [nsent EXCEPT ![h] = nsent[h] + 1]
    /\ pc' = [pc EXCEPT ![h] = at]
    /\ kind' = [kind EXCEPT ![h] = k]
    /\ UNCHANGED << conv, net, main_pc, worker_pc, cur, env, resp, hinfo, token_chan, session,
                    emb, info_chan, task_pc, taken, last_ok, gen_model >>

\* the handler sends cmd with a fresh result channel and awaits the reply
Submit(h, k, cmd, at) ==
    /\ Enqueue(cmd)
    /\ result' = [result EXCEPT ![h] = NewChan]
    /\ nsent' = [nsent EXCEPT ![h] = nsent[h] + 1]
    /\ pc' = [pc EXCEPT ![h] = at]
    /\ kind' = [kind EXCEPT ![h] = k]
    /\ UNCHANGED << conv, net, main_pc, worker_pc, cur, env, resp, hinfo, token_chan, session,
                    emb, info_chan, task_pc, taken, last_ok, gen_model >>

\* result_receiver.recv_async().await.unwrap(), then the match on the reply
AwaitResult(h, at) ==
    /\ pc[h] = at
    /\ \/ /\ result[h].st = "msg"
          /\ resp' = [resp EXCEPT ![h] = StatusOf(result[h].ok)]
          /\ pc' = [pc EXCEPT ![h] = "done"]
       \/ /\ result[h].st = "closed"
          /\ resp' = resp
          /\ pc' = [pc EXCEPT ![h] = "panicked"]
    /\ UNCHANGED << conv, net, main_pc, queue, worker_pc, cur, env, kind, req, result, hinfo,
                    token_chan, session, emb, info_chan, task_pc, nsent, polls, arrived,
                    taken, last_ok, unloaded, gen_model >>

\* a Reload is sent: no unload is the latest change of the model any more
ForgetUnloads ==
    /\ unloaded' = (unloaded /\ ~ReceiverAlive)
    /\ polls' = [g \in Handlers |->
                   IF ReceiverAlive
                   THEN [polls[g] EXCEPT !.clean = FALSE, !.in_row = FALSE]
                   ELSE polls[g]]

\* POST /api/models/load
Load(h) ==
    /\ Arrives(h)
    /\ \E body \in ReloadRequests :
        LET built == LoadBuild(Root, body)
        IN  IF ~built.ok
            THEN /\ Reject(h, "load")
                 /\ req' = [req EXCEPT ![h].body_reload = body]
            ELSE /\ Submit(h, "load", ReloadCmd(built.request, h), "load_wait")
                 /\ req' = [req EXCEPT ![h].body_reload = body, ![h].reload = built.request]
                 /\ arrived' = IF ReceiverAlive THEN Append(arrived, built.request)
                               ELSE arrived
                 /\ ForgetUnloads

LoadReplied(h) == AwaitResult(h, "load_wait")

\* POST /api/models/state/load
LoadState(h) ==
    /\ Arrives(h)
    /\ \E body \in SinglePaths :
        LET built == build_path(Root, body)
        IN  IF ~built.ok
            THEN /\ Reject(h, "load_state")
                 /\ req' = [req EXCEPT ![h].body_path = body]
            ELSE /\ Submit(h, "load_state", StateLoadCmd(built.path, h), "load_state_wait")
                 /\ req' = [req EXCEPT ![h].body_path = body, ![h].path = built.path]
                 /\ UNCHANGED << polls, arrived, unloaded >>

LoadStateReplied(h) == AwaitResult(h, "load_state_wait")

\* POST /api/models/save
Save(h) ==
    /\ Arrives(h)
    /\ \E body \in SinglePaths :
        LET built == build_path(Root, body)
        IN  IF ~built.ok
            THEN /\ Reject(h, "save")
                 /\ req' = [req EXCEPT ![h].body_path = body]
            ELSE /\ Submit(h, "save", SaveCmd(built.path, h), "save_wait")
                 /\ req' = [req EXCEPT ![h].body_path = body, ![h].path = built.path]
                 /\ UNCHANGED << polls, arrived, unloaded >>

SaveReplied(h) == AwaitResult(h, "save_wait")

\* GET /api/models/unload: let _ = sender.send(ThreadRequest::Unload)
Unload(h) ==
    /\ Arrives(h)
    /\ Enqueue(UnloadCmd)
    /\ pc' = [pc EXCEPT ![h] = "unload_poll"]
    /\ kind' = [kind EXCEPT ![h] = "unload"]
    /\ polls' = [polls EXCEPT ![h] = [NoPolls EXCEPT !.clean = TRUE, !.in_row = unloaded]]
    /\ UNCHANGED << conv, net, main_pc, worker_pc, cur, env, req, resp, result, hinfo, token_chan,
                    session, emb, info_chan, task_pc, nsent, arrived, taken, last_ok,
                    unloaded, gen_model >>

\* try_request_info(sender.clone()): a QueryInfo with a fresh reply channel
UnloadPoll(h) ==
    /\ pc[h] = "unload_poll"
    /\ Enqueue(QueryInfoCmd(h))
    /\ result' = [result EXCEPT ![h] = NewChan]
    /\ pc' = [pc EXCEPT ![h] = "unload_wait"]
    /\ UNCHANGED << conv, net, main_pc, worker_pc, cur, env, kind, req, resp, hinfo, token_chan,
                    session, emb, info_chan, task_pc, nsent, polls, arrived, taken,
                    last_ok, unloaded, gen_model >>

\* a plausible slip: the loop ends after the first poll, whatever it reports
UnloadContinuesNever(r) == FALSE

\* while try_request_info(..).await.is_ok() {}
UnloadContinues(r) == r.st = "msg"

\* a plausible slip: the handler reports a failure after the loop
UnloadStatusFailed == INTERNAL_SERVER_ERROR

\* StatusCode::OK, the value of unload after its loop
UnloadStatus == OK

\* the poll has resolved: poll again while it succeeds, answer 200 when it fails
UnloadPolled(h) ==
    /\ pc[h] = "unload_wait"
    /\ result[h].st \in {"msg", "closed"}
    /\ IF UnloadContinues(result[h])
       THEN /\ pc' = [pc EXCEPT ![h] = "unload_poll"]
            /\ UNCHANGED << resp, unloaded >>
       ELSE /\ pc' = [pc EXCEPT ![h] = "done"]
            /\ resp' = [resp EXCEPT ![h] = UnloadStatus]
            /\ unloaded' = (unloaded \/ polls[h].clean)
    /\ polls' = [polls EXCEPT
            ![h].last = IF result[h].st = "msg" THEN "ok" ELSE "absent",
            ![h].ok_seen = polls[h].ok_seen \/ result[h].st = "msg"]
    /\ result' = [result EXCEPT ![h] = NoChan]
    /\ UNCHANGED << conv, net, main_pc, queue, worker_pc, cur, env, kind, req, hinfo, token_chan,
                    session, emb, info_chan, task_pc, nsent, arrived, taken, last_ok,
                    gen_model >>

\* request_info(sender, timeout): a QueryInfo is sent and the caller waits
RequestInfo(h, k, at) ==
    /\ Arrives(h)
    /\ Enqueue(QueryInfoCmd(h))
    /\ result' = [result EXCEPT ![h] = NewChan]
    /\ pc' = [pc EXCEPT ![h] = at]
    /\ kind' = [kind EXCEPT ![h] = k]
    /\ UNCHANGED << conv, net, main_pc, worker_pc, cur, env, resp, hinfo, token_chan, session,
                    emb, info_chan, task_pc, nsent, polls, arrived, taken, last_ok,
                    unloaded, gen_model >>

\* a plausible slip: request_info waits for a fresh snapshot without a timeout
InfoOutcomesFreshOnly(r) == IF r.st = "msg" THEN { r.info } ELSE { }

\* what request_info returns: the fresh snapshot when it has arrived, the
\* stale indicator when the timeout expires first
InfoOutcomes(r) == IF r.st = "msg" THEN { r.info, Stale } ELSE { Stale }

\* GET /api/models/info
Info(h) == RequestInfo(h, "info", "info_wait") /\ req' = req

\* request_info has returned: Json(InfoResponse { reload, model, states })
InfoReturned(h) ==
    /\ pc[h] = "info_wait"
    /\ \E i \in InfoOutcomes(result[h]) : hinfo' = [hinfo EXCEPT ![h] = i]
    /\ result' = [result EXCEPT ![h] = GoneChan]
    /\ resp' = [resp EXCEPT ![h] = OK]
    /\ pc' = [pc EXCEPT ![h] = "done"]
    /\ UNCHANGED << conv, net, main_pc, queue, worker_pc, cur, env, kind, req, token_chan, session,
                    emb, info_chan, task_pc, nsent, polls, arrived, taken, last_ok,
                    unloaded, gen_model >>

\* POST /api/oai/embeddings: request_info(sender.clone(), 1 s)
Embeddings(h) ==
    /\ \E body \in ServedEmbeddingRequests : req' = [req EXCEPT ![h].emb = body]
    /\ RequestInfo(h, "embeddings", "emb_info_wait")

\* request_info has returned: the Generate command is sent with the tokenizer
\* of that snapshot, and the model name of the response is taken from it
EmbeddingsGenerate(h) ==
    /\ pc[h] = "emb_info_wait"
    /\ \E i \in InfoOutcomes(result[h]) :
        /\ hinfo' = [hinfo EXCEPT ![h] = i]
        /\ emb' = [emb EXCEPT ![h] = [NoEmb EXCEPT !.model = i.reload.model_path]]
        /\ Enqueue(GenerateCmd(From(req[h].emb), i.tokenizer, h))
    /\ result' = [result EXCEPT ![h] = GoneChan]
    /\ token_chan' = [token_chan EXCEPT
            ![h] = [msgs |-> << >>, tx |-> ReceiverAlive, rx |-> TRUE]]
    /\ pc' = [pc EXCEPT ![h] = "emb_stream"]
    /\ UNCHANGED << conv, net, main_pc, worker_pc, cur, env, kind, req, resp, session, info_chan,
                    task_pc, nsent, polls, arrived, taken, last_ok, unloaded, gen_model >>

\* a plausible slip: the Embed arm stores the vector and reads on
MatchTokenNoBreak(token, local) ==
    CASE token.type = "Stop" -> [local EXCEPT !.counter = token.counter, !.brk = FALSE]
      [] token.type = "Embed" -> [local EXCEPT !.embedding = token.vec, !.brk = FALSE]
      [] OTHER -> [local EXCEPT !.brk = FALSE]

\* a plausible slip: the counter is taken from the first Stop only
MatchTokenFirstStop(token, local) ==
    CASE token.type = "Stop" ->
            [local EXCEPT !.counter = IF local.counter = 0 THEN token.counter ELSE local.counter,
                          !.brk = FALSE]
      [] token.type = "Embed" -> [local EXCEPT !.embedding = token.vec, !.brk = TRUE]
      [] OTHER -> [local EXCEPT !.brk = FALSE]

\* match token { Token::Stop(_, counter) => token_counter = counter,
\*               Token::Embed(emb) => { embedding = emb; break }, _ => {} }
MatchToken(token, local) ==
    CASE token.type = "Stop" -> [local EXCEPT !.counter = token.counter, !.brk = FALSE]
      [] token.type = "Embed" -> [local EXCEPT !.embedding = token.vec, !.brk = TRUE]
      [] OTHER -> [local EXCEPT !.brk = FALSE]

\* while let Some(token) = stream.next().await { match token { .. } }; after
\* a break the response is built and the receiver dropped
EmbeddingsNext(h) ==
    /\ pc[h] = "emb_stream"
    /\ token_chan[h].msgs # << >>
    /\ LET token == Head(token_chan[h].msgs)
           local == MatchToken(token, [counter |-> emb[h].counter,
                                       embedding |-> emb[h].embedding, brk |-> FALSE])
       IN  /\ emb' = [emb EXCEPT
                    ![h].counter = local.counter,
                    ![h].embedding = local.embedding,
                    ![h].read = Append(emb[h].read, token),
                    ![h].body = IF local.brk
                                THEN EmbeddingResponse(emb[h].model, local.embedding, local.counter)
                                ELSE NoBody]
           /\ IF local.brk
              THEN /\ token_chan' = [token_chan EXCEPT ![h].msgs = << >>, ![h].rx = FALSE]
                   /\ pc' = [pc EXCEPT ![h] = "done"]
                   /\ resp' = [resp EXCEPT ![h] = OK]
              ELSE /\ token_chan' = [token_chan EXCEPT ![h].msgs = Tail(token_chan[h].msgs)]
                   /\ UNCHANGED << pc, resp >>
    /\ UNCHANGED << conv, net, main_pc, queue, worker_pc, cur, env, kind, req, result, hinfo,
                    session, info_chan, task_pc, nsent, polls, arrived, taken, last_ok,
                    unloaded, gen_model >>

\* stream.next() yields None: the channel is closed and empty, the loop ends
\* and the response is built from the locals as they are
EmbeddingsClosed(h) ==
    /\ pc[h] = "emb_stream"
    /\ token_chan[h].msgs = << >>
    /\ ~token_chan[h].tx
    /\ token_chan' = [token_chan EXCEPT ![h].rx = FALSE]
    /\ emb' = [emb EXCEPT ![h].body =
                    EmbeddingResponse(emb[h].model, emb[h].embedding, emb[h].counter)]
    /\ pc' = [pc EXCEPT ![h] = "done"]
    /\ resp' = [resp EXCEPT ![h] = OK]
    /\ UNCHANGED << conv, net, main_pc, queue, worker_pc, cur, env, kind, req, result, hinfo,
                    session, info_chan, task_pc, nsent, polls, arrived, taken,
                    last_ok, unloaded, gen_model >>

\* GET /api/models/state: the info channel is created, the polling task is
\* spawned and the receiver becomes the body of the SSE response
State(h) ==
    /\ Arrives(h)
    /\ info_chan' = [info_chan EXCEPT ![h] = [msgs |-> << >>, tx |-> TRUE, rx |-> TRUE]]
    /\ task_pc' = [task_pc EXCEPT ![h] = "poll"]
    /\ pc' = [pc EXCEPT ![h] = "streaming"]
    /\ kind' = [kind EXCEPT ![h] = "state"]
    /\ resp' = [resp EXCEPT ![h] = OK]
    /\ UNCHANGED << conv, net, main_pc, queue, worker_pc, cur, env, req, result, hinfo, token_chan,
                    session, emb, nsent, polls, arrived, taken, last_ok, unloaded,
                    gen_model >>

\* request_info_stream: the next QueryInfo of the cadence
TaskPoll(h) ==
    /\ task_pc[h] = "poll"
    /\ Enqueue(QueryInfoCmd(h))
    /\ result' = [result EXCEPT ![h] = NewChan]
    /\ task_pc' = [task_pc EXCEPT ![h] = "wait"]
    /\ UNCHANGED << conv, net, main_pc, worker_pc, cur, env, pc, kind, req, resp, hinfo, token_chan,
                    session, emb, info_chan, nsent, polls, arrived, taken, last_ok,
                    unloaded, gen_model >>

\* request_info_stream: the snapshot is forwarded to output; the task ends
\* when the subscriber is gone, and polls again when there was no snapshot
TaskForward(h) ==
    /\ task_pc[h] = "wait"
    /\ result[h].st \in {"msg", "closed"}
    /\ IF result[h].st = "closed"
       THEN /\ task_pc' = [task_pc EXCEPT ![h] = "poll"]
            /\ info_chan' = info_chan
       ELSE IF info_chan[h].rx
       THEN /\ Len(info_chan[h].msgs) < MaxBacklog
            /\ task_pc' = [task_pc EXCEPT ![h] = "poll"]
            /\ info_chan' = [info_chan EXCEPT
                    ![h].msgs = Append(info_chan[h].msgs, result[h].info)]
       ELSE /\ task_pc' = [task_pc EXCEPT ![h] = "stopped"]
            /\ info_chan' = [info_chan EXCEPT ![h].tx = FALSE]
    /\ result' = [result EXCEPT ![h] = NoChan]
    /\ UNCHANGED << conv, net, main_pc, queue, worker_pc, cur, env, pc, kind, req, resp, hinfo,
                    token_chan, session, emb, nsent, polls, arrived, taken, last_ok,
                    unloaded, gen_model >>

\* the SSE stream takes the next snapshot off the channel and writes it out
StreamNext(h) ==
    /\ pc[h] = "streaming"
    /\ info_chan[h].msgs # << >>
    /\ info_chan' = [info_chan EXCEPT ![h].msgs = Tail(info_chan[h].msgs)]
    /\ UNCHANGED << conv, net, main_pc, queue, worker_pc, cur, env, pc, kind, req, resp, result,
                    hinfo, token_chan, session, emb, task_pc, nsent, polls, arrived,
                    taken, last_ok, unloaded, gen_model >>

\* the subscriber disconnects: the response and its receiver are dropped
StreamDropped(h) ==
    /\ pc[h] = "streaming"
    /\ pc' = [pc EXCEPT ![h] = "done"]
    /\ info_chan' = [info_chan EXCEPT ![h].msgs = << >>, ![h].rx = FALSE]
    /\ UNCHANGED << conv, net, main_pc, queue, worker_pc, cur, env, kind, req, resp, result,
                    hinfo, token_chan, session, emb, task_pc, nsent, polls, arrived,
                    taken, last_ok, unloaded, gen_model >>

\* ------------------------------------------------------------- specification
Next ==
    \/ MainSpawn \/ MainReload \/ MainServe
    \/ WorkerTake \/ DoReload \/ DoUnload \/ DoStateLoad \/ DoSave
    \/ DoQueryInfo \/ DoGenerate \/ WorkerTerminate
    \/ \E h \in Handlers :
        \/ SessionEmit(h)
        \/ Load(h) \/ LoadReplied(h)
        \/ LoadState(h) \/ LoadStateReplied(h)
        \/ Save(h) \/ SaveReplied(h)
        \/ Unload(h) \/ UnloadPoll(h) \/ UnloadPolled(h)
        \/ Info(h) \/ InfoReturned(h)
        \/ Embeddings(h) \/ EmbeddingsGenerate(h) \/ EmbeddingsNext(h) \/ EmbeddingsClosed(h)
        \/ State(h) \/ TaskPoll(h) \/ TaskForward(h) \/ StreamNext(h) \/ StreamDropped(h)

Spec == Init /\ [][Next]_vars

\* the runtime lets every ready task run: a handler whose request_info has
\* its reply or its timer due is resumed
Fairness ==
    \A h \in Handlers : WF_vars(InfoReturned(h)) /\ WF_vars(EmbeddingsGenerate(h))

FairSpec == Spec /\ Fairness

\* the worker, while it lives, keeps pulling and processing commands
WorkerFairness ==
    /\ WF_vars(WorkerTake) /\ WF_vars(DoReload) /\ WF_vars(DoUnload)
    /\ WF_vars(DoStateLoad) /\ WF_vars(DoSave) /\ WF_vars(DoQueryInfo)
    /\ WF_vars(DoGenerate)

\* the runtime resumes every task whose awaited channel or timer is ready:
\* the handlers past their first step, the sessions and the polling tasks
TaskFairness ==
    \A h \in Handlers :
        /\ WF_vars(LoadReplied(h)) /\ WF_vars(LoadStateReplied(h)) /\ WF_vars(SaveReplied(h))
        /\ WF_vars(UnloadPoll(h)) /\ WF_vars(UnloadPolled(h))
        /\ WF_vars(EmbeddingsNext(h)) /\ WF_vars(EmbeddingsClosed(h))
        /\ WF_vars(SessionEmit(h))
        /\ WF_vars(TaskPoll(h)) /\ WF_vars(TaskForward(h))

LiveSpec == Spec /\ Fairness /\ WorkerFairness /\ TaskFairness

\* ------------------------------------------- the conversion, checked alone
\* Bounds of the EmbeddingRequest bodies the conversion is checked on
MaxInputs == 3
MaxLayer == 2

Texts == { << >>, << "a" >>, << "b", "c" >> }
InputLists == UNION { [1..n -> Texts] : n \in 0..MaxInputs }
EmbeddingRequests == [input : InputLists, embed_layer : 0..MaxLayer]

ConvInit ==
    /\ Constructed
    /\ \E value \in EmbeddingRequests : conv = [NoConv EXCEPT !.value = value]
    /\ net = NoNet

\* let request: GenerateRequest = request.into()
Convert ==
    /\ ~conv.done
    /\ conv' = [conv EXCEPT !.request = From(conv.value), !.done = TRUE]
    /\ UNCHANGED << net, main_pc, queue, worker_pc, cur, env, pc, kind, req, resp, result,
                    hinfo, token_chan, session, emb, info_chan, task_pc, nsent, polls,
                    arrived, taken, last_ok, unloaded, gen_model >>

ConvNext == Convert

ConvSpec == ConvInit /\ [][ConvNext]_vars

\* ------------------------------------- the listener settings, checked alone
\* 65530u16, the port used when neither the command line nor the config names one
DefaultPort == 65530

\* the values of --port served (0 is the default of the argument)
ArgPorts == { 0, 8080, DefaultPort }
\* the [listen] sections served: absent, or each field absent or set
ListenConfigs ==
    { None } \cup
    { Some(l) : l \in [port : { None, Some(3000), Some(DefaultPort) },
                       domain : { None, Some("local"), Some("example.org") },
                       acme : { None, Some(TRUE), Some(FALSE) },
                       tls : { None, Some(TRUE), Some(FALSE) }] }

\* a plausible slip: any positive port of the command line wins
bind_port_any_positive(port, listen) ==
    IF port > 0 THEN port
    ELSE IF listen # None THEN unwrap_or(listen[1].port, DefaultPort)
    ELSE DefaultPort

\* let bind_port = if args.port > 0 && args.port != 65530u16 { .. }
bind_port(port, listen) ==
    IF port > 0 /\ port # DefaultPort THEN port
    ELSE IF listen # None THEN unwrap_or(listen[1].port, DefaultPort)
    ELSE DefaultPort

\* a plausible slip: acme is taken from the config whatever the domain is
bind_settings_acme_unchecked(listen) ==
    IF listen # None
    THEN LET domain == unwrap_or(listen[1].domain, "local")
             acme == unwrap_or(listen[1].acme, FALSE)
             tls == IF acme THEN TRUE ELSE unwrap_or(listen[1].tls, FALSE)
         IN  [bind_domain |-> domain, use_acme |-> acme, use_tls |-> tls]
    ELSE [bind_domain |-> "local", use_acme |-> FALSE, use_tls |-> FALSE]

\* let (bind_domain, use_acme, use_tls) = if listen.clone().is_some() { .. }
bind_settings(listen) ==
    IF listen # None
    THEN LET domain == unwrap_or(listen[1].domain, "local")
             acme == IF domain = "local" THEN FALSE ELSE unwrap_or(listen[1].acme, FALSE)
             tls == IF acme THEN TRUE ELSE unwrap_or(listen[1].tls, FALSE)
         IN  [bind_domain |-> domain, use_acme |-> acme, use_tls |-> tls]
    ELSE [bind_domain |-> "local", use_acme |-> FALSE, use_tls |-> FALSE]

\* if use_acme { .. } else if use_tls { .. } else { .. }: the listener served
Listener(use_acme, use_tls) ==
    IF use_acme THEN "acme and tls" ELSE IF use_tls THEN "tls" ELSE "without tls"

BindInit ==
    /\ Constructed
    /\ conv = NoConv
    /\ \E port \in ArgPorts, listen \in ListenConfigs :
        net = [NoNet EXCEPT !.port = port, !.listen = listen]

\* salvo_main from the port to the listener it serves on
Bind ==
    /\ ~net.done
    /\ LET settings == bind_settings(net.listen)
       IN  net' = [net EXCEPT
                !.bind_port = bind_port(net.port, net.listen),
                !.bind_domain = settings.bind_domain,
                !.use_acme = settings.use_acme,
                !.use_tls = settings.use_tls,
                !.serve = Listener(settings.use_acme, settings.use_tls),
                !.done = TRUE]
    /\ UNCHANGED << conv, main_pc, queue, worker_pc, cur, env, pc, kind, req, resp, result,
                    hinfo, token_chan, session, emb, info_chan, task_pc, nsent, polls,
                    arrived, taken, last_ok, unloaded, gen_model >>

BindNext == Bind

BindSpec == BindInit /\ [][BindNext]_vars

\* ====================================================================== claims
Range(f) == { f[i] : i \in DOMAIN f }

\* the path fields of the body request h carried
PathFields(h) ==
    IF kind[h] = "load"
    THEN {req[h].body_reload.model_path} \cup Range(req[h].body_reload.lora)
            \cup Range(req[h].body_reload.state)
    ELSE {req[h].body_path}

PathHandlers == { h \in Handlers : kind[h] \in {"load", "load_state", "save"} }
SomePathRejected(h) == \E p \in PathFields(h) : ~build_path(Root, p).ok

\* a Reload, StateLoad or Save command of request h is on the channel or with
\* the worker
Placed(h) == Pending("Reload", h) \/ Pending("StateLoad", h) \/ Pending("Save", h)

\* C1: when the sandbox rejects any path field of a load, load_state or save
\* request, the handler answers 404 and never places a command for it.
C1_RejectedIs404AndSendsNothing ==
    \A h \in PathHandlers :
        SomePathRejected(h) =>
            /\ pc[h] = "done"
            /\ resp[h] = NOT_FOUND
            /\ nsent[h] = 0
            /\ ~Placed(h)
            /\ result[h] = NoChan

\* a load whose model and LoRA paths pass and whose state path is rejected
\* has been answered
C1_Witness ==
    \E h \in Handlers :
        /\ kind[h] = "load"
        /\ build_path(Root, req[h].body_reload.model_path).ok
        /\ \A i \in DOMAIN req[h].body_reload.lora : build_path(Root, req[h].body_reload.lora[i]).ok
        /\ \E i \in DOMAIN req[h].body_reload.state : ~build_path(Root, req[h].body_reload.state[i]).ok
        /\ resp[h] = NOT_FOUND

\* C2: unload answers only after a poll issued after its Unload has reported
\* the worker absent, never while the latest poll succeeded; and unless a
\* Reload was sent after its Unload, the worker is then without a model.
C2_UnloadAnswersAfterAbsentPoll ==
    \A h \in Handlers :
        (kind[h] = "unload" /\ resp[h] # NoResponse) =>
            /\ resp[h] = OK
            /\ polls[h].last = "absent"
            /\ polls[h].clean => (~env.loaded \/ worker_pc = "exited")

\* an unload has answered after a poll that succeeded and a later one that
\* reported the worker absent
C2_Witness ==
    \E h \in Handlers :
        /\ kind[h] = "unload" /\ resp[h] = OK
        /\ polls[h].ok_seen /\ polls[h].last = "absent"

\* C3 (as claimed): the snapshots queued between the polling task and the
\* subscriber are coalesced to the latest one, so at most one is waiting.
C3_BacklogCoalesced ==
    \A h \in Handlers : Len(info_chan[h].msgs) <= 1

C5_ResultAlwaysReplied ==
    \A h \in PathHandlers : result[h].st # "closed" /\ pc[h] # "panicked"

\* C6: the worker takes the Reload commands in the order they arrived, and a
\* loaded model is the request of the last Reload that succeeded.
C6_ReloadsInArrivalOrder ==
    /\ taken <= Len(arrived)
    /\ (worker_pc = "busy" /\ cur.type = "Reload") => cur.reload = arrived[taken]
    /\ env.loaded => (last_ok \in 1..taken /\ env.reload = arrived[last_ok])

\* the second load to arrive was loaded while the first load, sent with a
\* different model, had arrived before it
C6_Witness ==
    /\ Len(arrived) = 3
    /\ arrived[2] # arrived[3]
    /\ last_ok = 3
    /\ env.loaded /\ env.reload = arrived[3]

\* C7 (as claimed): the tokenizer a Generate command carries and the model
\* name of the response are those of the model the worker has loaded when it
\* processes the command.
C7_GenerateSeesOneModel ==
    \A h \in Handlers :
        (gen_model[h].seen /\ hinfo[h] # Stale) =>
            /\ hinfo[h].tokenizer = gen_model[h].model
            /\ emb[h].model = gen_model[h].model

\* C8: an unload called after an unload has answered, with no Reload sent
\* since that one sent its Unload, sees no successful poll and answers 200.
C8_SecondUnload ==
    \A h \in Handlers :
        (kind[h] = "unload" /\ polls[h].in_row) =>
            /\ ~polls[h].ok_seen
            /\ polls[h].last # "ok"
            /\ pc[h] = "done" => resp[h] = OK

\* the second of two unloads in a row has answered, after a model had been
\* loaded and the worker still lives
C8_Witness ==
    \E h \in Handlers :
        /\ kind[h] = "unload" /\ polls[h].in_row /\ pc[h] = "done" /\ resp[h] = OK
        /\ polls[h].last = "absent"
        /\ last_ok > 0 /\ worker_pc # "exited"

\* the characters of the texts, one text after the other
RECURSIVE Flat(_)
Flat(list) == IF list = << >> THEN << >> ELSE Head(list) \o Flat(Tail(list))

\* C9: the converted request has max_tokens 1, embed true, the embed_layer of
\* the body, the texts in their order with nothing between them as prompt,
\* and the default in every other field.
C9_Conversion ==
    conv.done =>
        /\ conv.request.max_tokens = 1
        /\ conv.request.embed = TRUE
        /\ conv.request.embed_layer = conv.value.embed_layer
        /\ conv.request.prompt = Flat(conv.value.input)
        /\ conv.request.stop = DefaultGenerateRequest.stop
        /\ conv.request.sampler = DefaultGenerateRequest.sampler
        /\ DOMAIN conv.request = DOMAIN DefaultGenerateRequest

\* a body of three texts, an empty one among them, has been converted
C9_Witness ==
    /\ conv.done
    /\ Len(conv.value.input) = MaxInputs
    /\ conv.value.input[2] = << >>
    /\ conv.value.input[1] # << >> /\ conv.value.input[3] # conv.value.input[1]
    /\ conv.value.embed_layer = MaxLayer

\* C10: with every path accepted, load, load_state and save send exactly one
\* command with a reply channel, answer only after the worker's reply, and
\* answer 200 exactly for true and 500 exactly for false.
C10_OneCommandAndStatusOfReply ==
    \A h \in PathHandlers :
        ~SomePathRejected(h) =>
            /\ nsent[h] = 1
            /\ resp[h] # NoResponse =>
                /\ result[h].st = "msg"
                /\ resp[h] \in {OK, INTERNAL_SERVER_ERROR}
                /\ resp[h] = OK <=> result[h].ok
                /\ resp[h] = INTERNAL_SERVER_ERROR <=> ~result[h].ok
            /\ result[h].st = "open" => (Placed(h) /\ resp[h] = NoResponse)

\* a save has answered 200 and a load has answered 500
C10_Witness ==
    /\ \E h \in Handlers : kind[h] = "save" /\ resp[h] = OK
    /\ \E h \in Handlers : kind[h] = "load" /\ resp[h] = INTERNAL_SERVER_ERROR

WaitsForResult(h) == pc[h] \in {"load_wait", "load_state_wait", "save_wait"}

\* C11 (as claimed): once the worker has ended, a load, load_state or save
\* that has sent its command is waiting for its rejection or has completed
\* with an error response; it is never aborted without a response.
C11_WorkerEndYieldsErrorResponse ==
    \A h \in Handlers :
        (worker_pc = "exited" /\ nsent[h] = 1 /\ result[h].st = "closed") =>
            \/ WaitsForResult(h)
            \/ pc[h] = "done" /\ resp[h] = INTERNAL_SERVER_ERROR

\* C13 (as claimed): once the subscriber of an info stream is gone, the
\* polling task spawned for it stops.
C13_PollingTaskStops ==
    \A h \in Handlers :
        (task_pc[h] \in {"poll", "wait"} /\ ~info_chan[h].rx) ~> (task_pc[h] = "stopped")

\* C15 (as claimed): every unload that has sent its Unload gets its response
\* while the worker keeps processing commands.
C15_UnloadResponds ==
    \A h \in Handlers :
        (pc[h] \in {"unload_poll", "unload_wait"}) ~> (pc[h] = "done" /\ resp[h] = OK)

MutationTypes == {"Reload", "Unload", "StateLoad", "Save"}

\* h's result channel receives the reply to its Reload, StateLoad or Save
MutationReplied(h) ==
    /\ kind'[h] \in {"load", "load_state", "save"}
    /\ result[h].st # "msg"
    /\ result'[h].st = "msg"

\* C12: the model changes, and a Reload, StateLoad or Save is answered, only
\* in the step in which the one worker completes the one command it holds;
\* no step of a handler changes the model, and the worker holds a command
\* exactly while it is busy.
C12_OneMutationInFlight ==
    [][ /\ (env' # env \/ \E h \in Handlers : MutationReplied(h)) =>
            /\ worker_pc = "busy" /\ cur.type \in MutationTypes
            /\ worker_pc' = "idle" /\ cur' = NoCmd
            /\ pc' = pc
            /\ \A h \in Handlers : MutationReplied(h) => cur.h = h
        /\ (worker_pc = "busy") <=> (cur # NoCmd)
        /\ (worker_pc' = "busy") <=> (cur' # NoCmd) ]_vars

\* the worker is processing one handler's Reload while another handler's Save
\* waits on the Command Channel
C12_Witness ==
    /\ worker_pc = "busy" /\ cur.type = "Reload" /\ cur.h # 0
    /\ \E i \in 1..Len(queue) : queue[i].type = "Save" /\ queue[i].h # cur.h

\* the commands on the Command Channel or with the worker
Commands == { queue[i] : i \in 1..Len(queue) } \cup { cur }

Sandboxed(p) == IsPrefix(Root, p) /\ \A i \in 1..Len(p) : p[i] # ".."

\* C14: every path field of every Reload, StateLoad and Save command a handler
\* has enqueued is what build_path returned for that field of the body: it
\* lies under the root, and is never the path as the caller supplied it.
C14_CommandsCarryBuiltPaths ==
    \A c \in Commands :
        /\ (c.type = "Reload" /\ c.h # 0) =>
            LET body == req[c.h].body_reload
            IN  /\ c.reload.model_path = build_path(Root, body.model_path).path
                /\ Sandboxed(c.reload.model_path) /\ c.reload.model_path # body.model_path
                /\ Len(c.reload.lora) = Len(body.lora)
                /\ \A i \in 1..Len(body.lora) :
                    /\ c.reload.lora[i] = build_path(Root, body.lora[i]).path
                    /\ Sandboxed(c.reload.lora[i]) /\ c.reload.lora[i] # body.lora[i]
                /\ Len(c.reload.state) = Len(body.state)
                /\ \A i \in 1..Len(body.state) :
                    /\ c.reload.state[i] = build_path(Root, body.state[i]).path
                    /\ Sandboxed(c.reload.state[i]) /\ c.reload.state[i] # body.state[i]
        /\ c.type \in {"StateLoad", "Save"} =>
            /\ c.path = build_path(Root, req[c.h].body_path).path
            /\ Sandboxed(c.path) /\ c.path # req[c.h].body_path

\* a Reload whose body named the model through a parent-directory step, and a
\* Save, are on their way to the worker with the resolved paths
C14_Witness ==
    /\ \E c \in Commands :
        /\ c.type = "Reload" /\ c.h # 0
        /\ req[c.h].body_reload.model_path = GoodB
        /\ c.reload.model_path = << "root", "b" >>
    /\ \E c \in Commands : c.type = "Save" /\ c.path = << "root", "s" >>

EmbeddingHandlers == { h \in Handlers : kind[h] = "embeddings" }

\* the positions of the Embed events of a sequence of events
EmbedsIn(events) == { i \in 1..Len(events) : events[i].type = "Embed" }

\* the events a session produces up to and including its first Embed
RECURSIVE UpToEmbed(_)
UpToEmbed(events) ==
    IF events = << >> THEN << >>
    ELSE IF Head(events).type = "Embed" THEN << Head(events) >>
    ELSE << Head(events) >> \o UpToEmbed(Tail(events))

\* the counter of the last Stop among events, 0 (the default) without one
RECURSIVE LastStop(_)
LastStop(events) ==
    IF events = << >> THEN 0
    ELSE IF events[Len(events)].type = "Stop" THEN events[Len(events)].counter
    ELSE LastStop(SubSeq(events, 1, Len(events) - 1))

\* C16: embeddings reads the events of its session in production order and
\* none past the first Embed; it has responded exactly when it has read an
\* Embed or found the channel closed; the response is 200 with one data entry
\* of index 0 that holds the vector of that Embed, or the empty vector when
\* the channel closed without one (the Generate never delivered included).
C16_EmbeddingsReadsToFirstEmbed ==
    \A h \in EmbeddingHandlers :
        LET read == emb[h].read
            script == gen_model[h].script
            answered == pc[h] = "done"
        IN  /\ IsPrefix(read, script)
            /\ EmbedsIn(read) \subseteq { Len(read) }
            /\ answered <=> resp[h] = OK
            /\ EmbedsIn(read) # { } => answered
            /\ answered =>
                /\ read = UpToEmbed(script)
                /\ Len(emb[h].body.data) = 1
                /\ emb[h].body.data[1].index = 0
                /\ emb[h].body.data[1].embedding =
                     IF EmbedsIn(read) # { } THEN read[Len(read)].vec ELSE << >>
                /\ EmbedsIn(read) = { } => ~token_chan[h].tx

\* one embeddings request has answered with the vector of an Embed that came
\* after Content and Stop events, another with the empty vector
C16_Witness ==
    /\ \E h \in EmbeddingHandlers :
        /\ pc[h] = "done" /\ Len(emb[h].read) = 4
        /\ emb[h].body.data[1].embedding = << "cfg" >>
    /\ \E h \in EmbeddingHandlers :
        /\ pc[h] = "done" /\ emb[h].read = << Content, Error >>
        /\ emb[h].body.data[1].embedding = << >>

\* C17: the usage counter of an embeddings response is the counter of the
\* last Stop the session produced before its first Embed, and the default
\* when there is none; a Stop after the Embed has no effect.
C17_UsageIsLastStopBeforeEmbed ==
    \A h \in EmbeddingHandlers :
        pc[h] = "done" => emb[h].body.counter = LastStop(UpToEmbed(gen_model[h].script))

\* a session produced two Stops, an Embed and a third Stop, and the response
\* carries the counter of the second; another response carries the default
C17_Witness ==
    /\ \E h \in EmbeddingHandlers :
        /\ pc[h] = "done" /\ Len(gen_model[h].script) = 5
        /\ gen_model[h].script[5] = Stop(3)
        /\ emb[h].body.counter = 2
    /\ \E h \in EmbeddingHandlers :
        /\ pc[h] = "done" /\ Len(gen_model[h].script) = 1
        /\ gen_model[h].script[1].type = "Embed"
        /\ emb[h].body.counter = 0

\* the Reload of salvo_main: built from the config file, without a sender
IsStartup(c) == c.type = "Reload" /\ c.h = 0 /\ c.reload = ConfigRequest

StartupsQueued == { i \in 1..Len(queue) : IsStartup(queue[i]) }

\* C18: the worker exists from the spawn on; no request is served before
\* salvo_main has spawned it and sent the one Reload of the config file, which
\* carries no reply channel; unless the worker has ended before that send,
\* this Reload is the first command to arrive, is at the head of the channel
\* while it waits, and has been taken by the worker before the worker holds
\* any command of a handler; no handler's channel receives its outcome.
C18_StartupReloadFirst ==
    /\ (worker_pc = "none") <=> (main_pc = "start")
    /\ (\E h \in Handlers : pc[h] # "idle") => main_pc = "serving"
    /\ main_pc \in {"start", "spawned"} => (queue = << >> /\ cur = NoCmd /\ arrived = << >>)
    /\ main_pc \in {"enqueued", "serving"} => (Len(arrived) >= 1 \/ worker_pc = "exited")
    /\ Len(arrived) >= 1 => arrived[1] = ConfigRequest
    /\ StartupsQueued \subseteq {1}
    /\ IsStartup(cur) => (StartupsQueued = { } /\ taken = 1)
    /\ \A c \in Commands : c.h = 0 /\ c.type = "Reload" => IsStartup(c)
    /\ (cur # NoCmd /\ ~IsStartup(cur)) => (taken >= 1 /\ StartupsQueued = { })
    /\ (\A h \in Handlers : pc[h] = "idle") => (\A h \in Handlers : result[h] = NoChan)

\* the worker holds a handler's command after the Reload of the config file,
\* the first to arrive, was loaded
C18_Witness ==
    /\ worker_pc = "busy" /\ cur.h # 0
    /\ arrived[1] = ConfigRequest /\ last_ok = 1
    /\ env.loaded /\ env.reload = ConfigRequest

\* the domain the config names: none without a [listen] section or a domain
ConfiguredDomain(listen) == IF listen = None THEN None ELSE listen[1].domain

\* C19: ACME is off when the domain is "local" or absent or there is no listen
\* configuration; TLS is on whenever ACME is on, in the settings and in the
\* listener served; without a listen configuration the server runs with
\* domain "local", no ACME and no TLS.
C19_AcmeAndTls ==
    net.done =>
        /\ ConfiguredDomain(net.listen) \in { None, Some("local") } => ~net.use_acme
        /\ net.use_acme => (net.use_tls /\ net.serve = "acme and tls")
        /\ net.serve = "without tls" <=> (~net.use_acme /\ ~net.use_tls)
        /\ net.listen = None =>
            /\ net.bind_domain = "local" /\ ~net.use_acme /\ ~net.use_tls
            /\ net.serve = "without tls"

\* a config with a real domain, acme on and tls off has been resolved: ACME
\* is on and has switched TLS on
C19_Witness ==
    /\ net.done /\ net.listen # None
    /\ net.listen[1].domain = Some("example.org")
    /\ net.listen[1].acme = Some(TRUE) /\ net.listen[1].tls = Some(FALSE)
    /\ net.use_acme /\ net.use_tls /\ net.serve = "acme and tls"

\* the command line names a port of its own: positive and not 65530
PortGiven == net.port # 0 /\ net.port # DefaultPort

\* C20: the server binds to the port of the command line when that is
\* positive and not 65530, else to the port of the listen configuration when
\* it names one, else to 65530.
C20_BindPort ==
    net.done =>
        /\ PortGiven => net.bind_port = net.port
        /\ (~PortGiven /\ net.listen = None) => net.bind_port = DefaultPort
        /\ (~PortGiven /\ net.listen # None) =>
            \/ net.listen[1].port = None /\ net.bind_port = DefaultPort
            \/ net.listen[1].port # None /\ net.listen[1].port = Some(net.bind_port)

\* --port 65530 with port 3000 in the listen configuration binds to 3000
C20_Witness ==
    /\ net.done /\ net.port = DefaultPort
    /\ net.listen # None /\ net.listen[1].port = Some(3000)
    /\ net.bind_port = 3000

====
